---------------------------- MODULE Spec2Model ----------------------------
(***************************************************************************)
(* Model of src/api/osmesa.rs: the OSMesa off-screen context             *)
(* (OsMesaContext) and its pixel buffer (OsMesaBuffer), together with the  *)
(* part of the native OSMesa layer the code talks to (library loading,     *)
(* context creation and destruction, the per-thread current slot, symbol   *)
(* resolution).                                                            *)
(*                                                                         *)
(* Machine integers wider than TLC's own are kept as little-endian         *)
(* sequences of base-256 digits: a u32 is 4 digits, a usize UsizeBytes     *)
(* digits.                                                                 *)
(***************************************************************************)
EXTENDS Integers, Sequences, FiniteSets, TLC

VARIABLES
    debug_assertions, \* cfg!(debug_assertions) of the build (also its overflow checks)
    lib,              \* the cached result of OsMesa::try_loading
    ctx,              \* the OsMesaContext objects: their lifecycle and handle
    buf,              \* the OsMesaBuffer objects: their lifecycle, width, height, storage length
    nativeLive,       \* native layer: the handles created and not yet destroyed
    cur,              \* native layer: each thread's current slot
    dropCalls,        \* per OsMesaContext object, the native destroy calls its drop issued
    bound,            \* per thread, the OsMesaContext object whose make_current last
                      \* succeeded there and that was not unbound, displaced or dropped
                      \* since (0 when there is none)
    last              \* the last operation: its inputs, its result, the native calls it made

vars == <<debug_assertions, lib, ctx, buf, nativeLive, cur, dropCalls, bound, last>>

---------------------------------------------------------------------------
(* Bounds *)

\* how many OsMesaContext objects a behaviour creates
MaxCtx == 2

\* how many OsMesaBuffer objects a behaviour creates
MaxBuf == 1

Threads == {"T1", "T2"}
CtxIds == 1..MaxCtx
BufIds == 1..MaxBuf
\* the native handle values; a destroyed handle's value may be handed out again
Handles == 1..MaxCtx
\* the null pointer
Null == 0

---------------------------------------------------------------------------
(* Machine integers *)

\* std::os::raw::c_int and u32 are 4 bytes wide
U32Bytes == 4

\* usize on the 64-bit targets of the cfg(target_os) list
UsizeBytes == 8

RECURSIVE Zeros(_)
Zeros(n) == IF n <= 0 THEN <<>> ELSE <<0>> \o Zeros(n - 1)

\* the digits of a small natural number, n digits wide
RECURSIVE ToDigits(_, _)
ToDigits(x, n) == IF n = 0 THEN <<>> ELSE <<x % 256>> \o ToDigits(x \div 256, n - 1)

IsZero(d) == \A i \in 1..Len(d) : d[i] = 0

\* `x as usize` of a u32: zero extension
AsUsize(d) == d \o Zeros(UsizeBytes - Len(d))

\* the sum of a[i] * b[j] over the digit pairs of column k (i + j = k + 1)
RECURSIVE ColSum(_, _, _, _)
ColSum(a, b, k, i) ==
    IF i > Len(a) THEN 0
    ELSE (IF k + 1 - i \in 1..Len(b) THEN a[i] * b[k + 1 - i] ELSE 0) + ColSum(a, b, k, i + 1)

RECURSIVE MulCarry(_, _, _, _)
MulCarry(a, b, k, carry) ==
    IF k > Len(a) + Len(b) THEN <<>>
    ELSE LET s == ColSum(a, b, k, 1) + carry
         IN  <<s % 256>> \o MulCarry(a, b, k + 1, s \div 256)

\* the exact product, Len(a) + Len(b) digits wide
MulExact(a, b) == MulCarry(a, b, 1, 0)

\* a usize multiplication: the product as the machine keeps it (wrapped to
\* UsizeBytes digits) and whether it overflowed
MulUsize(a, b) ==
    LET p == MulExact(a, b)
    IN  [val |-> SubSeq(p, 1, UsizeBytes),
         ovf |-> ~IsZero(SubSeq(p, UsizeBytes + 1, Len(p)))]

\* d > isize::MAX: the top bit of a usize is set
AboveIsizeMax(d) == d[UsizeBytes] >= 128

\* `x as raw::c_int` of a u32: the same 32 bits read as two's complement
AsCInt(d) ==
    IF d[U32Bytes] >= 128
    THEN [neg |-> TRUE,
          mag |-> LET inv == [i \in 1..U32Bytes |-> 255 - d[i]]
                  IN  SubSeq(MulCarry(inv, <<1>>, 1, 1), 1, U32Bytes)]
    ELSE [neg |-> FALSE, mag |-> d]

\* `x as raw::c_int` of a u8 (Version's fields): zero extension, the value
\* is kept
U8AsCInt(x) ==
    LET d == ToDigits(x % 256, U32Bytes)
    IN  d[1] + 256 * d[2] + 65536 * d[3] + 16777216 * (d[4] % 128)

---------------------------------------------------------------------------
(* Inputs *)

U32_0 == ToDigits(0, U32Bytes)
U32_1 == ToDigits(1, U32Bytes)
U32_64 == ToDigits(64, U32Bytes)
U32_2p16 == <<0, 0, 1, 0>>
U32_2p31 == <<0, 0, 0, 128>>
U32_MAX == <<255, 255, 255, 255>>

\* the widths and heights tried: 0, 1, 64, 2^16, 2^31, 2^32 - 1
DimInputs == {U32_0, U32_1, U32_64, U32_2p16, U32_2p31, U32_MAX}

\* the physical sizes handed to OsMesaBuffer::new
SizeInputs == DimInputs \X DimInputs

\* the sizes of the buffers that contexts are bound to
BoundSizes == { <<U32_64, U32_64>>, <<U32_2p31, U32_1>>, <<U32_2p31, U32_2p31>> }

NoLast == [op |-> "none", res |-> "none", calls |-> <<>>]

---------------------------------------------------------------------------
(* OsMesaBuffer *)

NoBuf == [st |-> "none"]

\* the first buffer object not yet constructed
FreshBuf == CHOOSE b \in BufIds : buf[b].st = "none" /\ \A x \in BufIds : x < b => buf[x].st # "none"

\* size.0 as usize * size.1 as usize * 4
BufferLen(size) ==
    LET wh == MulUsize(AsUsize(size[1]), AsUsize(size[2]))
        whf == MulUsize(wh.val, ToDigits(4, UsizeBytes))
    IN  [val |-> whf.val, ovf |-> wh.ovf \/ whf.ovf]

\* the outcome of OsMesaBuffer::new for a storage length n: the
\* multiplication panics on overflow where the build checks it, the Vec
\* refuses a capacity above isize::MAX, the host allocator may fail (oom)
BufferOutcome(n, oom) ==
    IF n.ovf /\ debug_assertions THEN "panic_overflow"
    ELSE IF AboveIsizeMax(n.val) THEN "panic_capacity"
    ELSE IF oom THEN "abort_alloc"
    ELSE "Ok"

\* OsMesaBuffer::new.  oom: the host allocator fails (it is asked for
\* nothing when the length is 0).
OsMesaBuffer_new(size, oom) ==
    /\ \E b \in BufIds : buf[b].st = "none"
    /\ \E n \in {BufferLen(size)} :
          /\ oom => ~IsZero(n.val)
          /\ \E res \in {BufferOutcome(n, oom)} :
                /\ buf' = IF res = "Ok"
                          THEN [buf EXCEPT ![FreshBuf] =
                                  [st |-> "live", width |-> size[1], height |-> size[2],
                                   len |-> n.val]]
                          ELSE buf
                /\ last' = [op |-> "buffer_new", size |-> size, res |-> res,
                            b |-> IF res = "Ok" THEN FreshBuf ELSE 0, calls |-> <<>>]
    /\ UNCHANGED <<debug_assertions, lib, ctx, nativeLive, cur, dropCalls, bound>>

\* a buffer drop that enforces liveness: it clears the slot of every thread
\* whose binding refers to the buffer's storage
OsMesaBuffer_drop_unbinds(b) ==
    /\ buf[b].st = "live"
    /\ buf' = [buf EXCEPT ![b] = [st |-> "dropped"]]
    /\ cur' = [t \in Threads |-> IF cur[t].buffer = b
                                 THEN [cur[t] EXCEPT !.ctx = Null, !.buffer = Null]
                                 ELSE cur[t]]
    /\ bound' = [t \in Threads |-> IF cur[t].buffer = b THEN 0 ELSE bound[t]]
    /\ last' = [op |-> "buffer_drop", b |-> b, res |-> "Ok", calls |-> <<>>]
    /\ UNCHANGED <<debug_assertions, lib, ctx, nativeLive, dropCalls>>

\* the buffer's owner drops it: the storage is freed, no native call
OsMesaBuffer_drop(b) ==
    /\ buf[b].st = "live"
    /\ buf' = [buf EXCEPT ![b] = [st |-> "dropped"]]
    /\ last' = [op |-> "buffer_drop", b |-> b, res |-> "Ok", calls |-> <<>>]
    /\ UNCHANGED <<debug_assertions, lib, ctx, nativeLive, cur, dropCalls, bound>>

---------------------------------------------------------------------------
(* The native OSMesa layer (glutin_osmesa_sys) *)

GL_UNSIGNED_BYTE == 5121
OSMESA_PROFILE == 51
OSMESA_CORE_PROFILE == 52
OSMESA_COMPAT_PROFILE == 53
OSMESA_CONTEXT_MAJOR_VERSION == 54
OSMESA_CONTEXT_MINOR_VERSION == 55

CIntZero == [neg |-> FALSE, mag |-> Zeros(U32Bytes)]

\* a c_int is at least 1
CIntPositive(x) == ~x.neg /\ ~IsZero(x.mag)

\* a thread's current slot with nothing bound
NoBinding == [ctx |-> Null, buffer |-> Null, type |-> 0, width |-> CIntZero, height |-> CIntZero]

\* OsMesa::try_loading: lazy, the first call's outcome is kept for the process
try_loading(loads) ==
    IF lib = "untried" THEN (IF loads THEN "loaded" ELSE "failed") ELSE lib

\* OSMesaGetCurrentContext: the handle in the calling thread's slot, or null
OSMesaGetCurrentContext(t) == cur[t].ctx

\* OSMesaMakeCurrent's return value.  A null context with a null buffer is
\* the clear-current request, which only some drivers accept; otherwise the
\* call fails on a null context or buffer, a type other than
\* GL_UNSIGNED_BYTE, or a width or height below 1, and may fail on the
\* driver's own limits (accepts).
OSMesaMakeCurrent_ret(h, buffer, type, width, height, accepts) ==
    IF h = Null /\ buffer = Null
    THEN (IF accepts THEN 1 ELSE 0)
    ELSE IF /\ h # Null
            /\ buffer # Null
            /\ type = GL_UNSIGNED_BYTE
            /\ CIntPositive(width)
            /\ CIntPositive(height)
            /\ accepts
         THEN 1
         ELSE 0

\* OSMesaMakeCurrent's effect on the calling thread's slot
OSMesaMakeCurrent_cur(t, h, buffer, type, width, height, accepts) ==
    IF OSMesaMakeCurrent_ret(h, buffer, type, width, height, accepts) = 0
    THEN cur
    ELSE IF h = Null
         THEN [cur EXCEPT ![t] = NoBinding]
         ELSE [cur EXCEPT ![t] = [ctx |-> h, buffer |-> buffer, type |-> type,
                                  width |-> width, height |-> height]]

\* OSMesaDestroyContext's effect on the slots: the native context is freed;
\* whether the calling thread's slot is cleared when it designates the
\* destroyed handle depends on the driver (clears); no other thread's slot
\* is touched
OSMesaDestroyContext_cur(t, h, clears) ==
    IF clears /\ OSMesaGetCurrentContext(t) = h THEN [cur EXCEPT ![t] = NoBinding] ELSE cur

\* the answers OSMesaCreateContextAttribs can give: null, or a handle that
\* no live native context has
CreateAnswers == {Null} \cup (Handles \ nativeLive)

---------------------------------------------------------------------------
(* OsMesaContext *)

NoCtx == [st |-> "none", h |-> Null]

\* a context object after its drop: the handle it held is gone with it
Dropped == [st |-> "dropped", h |-> Null]

\* the first context object not yet constructed
FreshCtx == CHOOSE c \in CtxIds : ctx[c].st = "none" /\ \A x \in CtxIds : x < c => ctx[x].st # "none"

Robustnesses ==
    {"NotRobust", "RobustNoResetNotification", "TryRobustNoResetNotification",
     "RobustLoseContextOnReset"}

Profiles == {"None", "Core", "Compatibility"}

\* the (major, minor) versions asked for
Versions == {<<3, 3>>, <<4, 0>>, <<1, 255>>}

\* an attribute list with the profile pair pushed after the version pairs
Attribs_profileLast(profile, version) ==
    <<OSMESA_CONTEXT_MAJOR_VERSION, U8AsCInt(version[1]),
      OSMESA_CONTEXT_MINOR_VERSION, U8AsCInt(version[2])>>
    \o (IF profile = "None" THEN <<>>
        ELSE <<OSMESA_PROFILE>> \o
             (IF profile = "Compatibility" THEN <<OSMESA_COMPAT_PROFILE>>
              ELSE <<OSMESA_CORE_PROFILE>>))
    \o <<0>>

\* the attribute list OsMesaContext::new builds
Attribs(profile, version) ==
    (IF profile = "None" THEN <<>>
     ELSE <<OSMESA_PROFILE>> \o
          (IF profile = "Compatibility" THEN <<OSMESA_COMPAT_PROFILE>>
           ELSE <<OSMESA_CORE_PROFILE>>))
    \o <<OSMESA_CONTEXT_MAJOR_VERSION, U8AsCInt(version[1]),
         OSMESA_CONTEXT_MINOR_VERSION, U8AsCInt(version[2])>>
    \o <<0>>

\* OsMesaContext::new with the robustness match ahead of the sharing check
NewOutcome_robustnessBeforeSharing(sharing, robustness, profile, version, loads, answer) ==
    LET load == [f |-> "try_loading"]
        create == [f |-> "OSMesaCreateContextAttribs",
                   attribs |-> Attribs(profile, version), share |-> Null, ret |-> answer]
    IN  IF try_loading(loads) # "loaded"
        THEN [res |-> "Err_OsMesaLoadingError", calls |-> <<load>>, h |-> Null]
        ELSE IF robustness \in {"RobustNoResetNotification", "RobustLoseContextOnReset"}
        THEN [res |-> "Err_RobustnessNotSupported", calls |-> <<load>>, h |-> Null]
        ELSE IF sharing # 0
        THEN [res |-> "panic_sharing", calls |-> <<load>>, h |-> Null]
        ELSE IF answer = Null
        THEN [res |-> "Err_Misc", calls |-> <<load, create>>, h |-> Null]
        ELSE [res |-> "Ok", calls |-> <<load, create>>, h |-> answer]

\* OsMesaContext::new with the robustness match ahead of the library loading
NewOutcome_robustnessBeforeLoading(sharing, robustness, profile, version, loads, answer) ==
    LET load == [f |-> "try_loading"]
        create == [f |-> "OSMesaCreateContextAttribs",
                   attribs |-> Attribs(profile, version), share |-> Null, ret |-> answer]
    IN  IF robustness \in {"RobustNoResetNotification", "RobustLoseContextOnReset"}
        THEN [res |-> "Err_RobustnessNotSupported", calls |-> <<>>, h |-> Null]
        ELSE IF try_loading(loads) # "loaded"
        THEN [res |-> "Err_OsMesaLoadingError", calls |-> <<load>>, h |-> Null]
        ELSE IF sharing # 0
        THEN [res |-> "panic_sharing", calls |-> <<load>>, h |-> Null]
        ELSE IF answer = Null
        THEN [res |-> "Err_Misc", calls |-> <<load, create>>, h |-> Null]
        ELSE [res |-> "Ok", calls |-> <<load, create>>, h |-> answer]

\* OsMesaContext::new without the robustness match
NewOutcome_noRobustnessMatch(sharing, robustness, profile, version, loads, answer) ==
    LET load == [f |-> "try_loading"]
        create == [f |-> "OSMesaCreateContextAttribs",
                   attribs |-> Attribs(profile, version), share |-> Null, ret |-> answer]
    IN  IF try_loading(loads) # "loaded"
        THEN [res |-> "Err_OsMesaLoadingError", calls |-> <<load>>, h |-> Null]
        ELSE IF sharing # 0
        THEN [res |-> "panic_sharing", calls |-> <<load>>, h |-> Null]
        ELSE IF answer = Null
        THEN [res |-> "Err_Misc", calls |-> <<load, create>>, h |-> Null]
        ELSE [res |-> "Ok", calls |-> <<load, create>>, h |-> answer]

\* OsMesaContext::new without the null check on the handle obtained
NewOutcome_noNullCheck(sharing, robustness, profile, version, loads, answer) ==
    LET load == [f |-> "try_loading"]
        create == [f |-> "OSMesaCreateContextAttribs",
                   attribs |-> Attribs(profile, version), share |-> Null, ret |-> answer]
    IN  IF try_loading(loads) # "loaded"
        THEN [res |-> "Err_OsMesaLoadingError", calls |-> <<load>>, h |-> Null]
        ELSE IF sharing # 0
        THEN [res |-> "panic_sharing", calls |-> <<load>>, h |-> Null]
        ELSE IF robustness \in {"RobustNoResetNotification", "RobustLoseContextOnReset"}
        THEN [res |-> "Err_RobustnessNotSupported", calls |-> <<load>>, h |-> Null]
        ELSE [res |-> "Ok", calls |-> <<load, create>>, h |-> answer]

\* OsMesaContext::new without the sharing check
NewOutcome_noSharingCheck(sharing, robustness, profile, version, loads, answer) ==
    LET load == [f |-> "try_loading"]
        create == [f |-> "OSMesaCreateContextAttribs",
                   attribs |-> Attribs(profile, version), share |-> Null, ret |-> answer]
    IN  IF try_loading(loads) # "loaded"
        THEN [res |-> "Err_OsMesaLoadingError", calls |-> <<load>>, h |-> Null]
        ELSE IF robustness \in {"RobustNoResetNotification", "RobustLoseContextOnReset"}
        THEN [res |-> "Err_RobustnessNotSupported", calls |-> <<load>>, h |-> Null]
        ELSE IF answer = Null
        THEN [res |-> "Err_Misc", calls |-> <<load, create>>, h |-> Null]
        ELSE [res |-> "Ok", calls |-> <<load, create>>, h |-> answer]

\* the outcome of OsMesaContext::new: its result, the native calls issued in
\* order, the handle obtained.  sharing is 0 for None, else the context
\* shared with; loads and answer are the native layer's answers.
NewOutcome(sharing, robustness, profile, version, loads, answer) ==
    LET load == [f |-> "try_loading"]
        create == [f |-> "OSMesaCreateContextAttribs",
                   attribs |-> Attribs(profile, version), share |-> Null, ret |-> answer]
    IN  IF try_loading(loads) # "loaded"
        THEN [res |-> "Err_OsMesaLoadingError", calls |-> <<load>>, h |-> Null]
        ELSE IF sharing # 0
        THEN [res |-> "panic_sharing", calls |-> <<load>>, h |-> Null]
        ELSE IF robustness \in {"RobustNoResetNotification", "RobustLoseContextOnReset"}
        THEN [res |-> "Err_RobustnessNotSupported", calls |-> <<load>>, h |-> Null]
        ELSE IF answer = Null
        THEN [res |-> "Err_Misc", calls |-> <<load, create>>, h |-> Null]
        ELSE [res |-> "Ok", calls |-> <<load, create>>, h |-> answer]

\* OsMesaContext::new.  The native answers are drawn only where the call
\* that gives them is made: loads on the first try_loading, answer when
\* OSMesaCreateContextAttribs is reached.
OsMesaContext_new(sharing, robustness, profile, version, loads, answer) ==
    /\ \E c \in CtxIds : ctx[c].st = "none"
    /\ sharing # 0 => ctx[sharing].st = "live"
    /\ lib # "untried" => loads = (lib = "loaded")
    /\ answer \in CreateAnswers
    /\ answer # Null =>
          Len(NewOutcome(sharing, robustness, profile, version, loads, answer).calls) = 2
    /\ LET o == NewOutcome(sharing, robustness, profile, version, loads, answer)
       IN  /\ lib' = try_loading(loads)
           /\ ctx' = IF o.res = "Ok" THEN [ctx EXCEPT ![FreshCtx] = [st |-> "live", h |-> o.h]]
                     ELSE ctx
           /\ nativeLive' = IF o.res = "Ok" THEN nativeLive \cup {o.h} ELSE nativeLive
           /\ last' = [op |-> "new", sharing |-> sharing # 0,
                       robustness |-> robustness, profile |-> profile, version |-> version,
                       res |-> o.res, calls |-> o.calls,
                       c |-> IF o.res = "Ok" THEN FreshCtx ELSE 0]
    /\ UNCHANGED <<debug_assertions, buf, cur, dropCalls, bound>>

\* is_current that only asks whether the thread has a current context
is_current_anyContext(c, t) == OSMesaGetCurrentContext(t) # Null

\* OsMesaContext::is_current
is_current(c, t) == OSMesaGetCurrentContext(t) = ctx[c].h

\* make_current that ignores the return value of OSMesaMakeCurrent
make_current_retIgnored(t, c, b, accepts) ==
    /\ ctx[c].st = "live"
    /\ buf[b].st = "live"
    /\ LET width == AsCInt(buf[b].width)
           height == AsCInt(buf[b].height)
           ret == OSMesaMakeCurrent_ret(ctx[c].h, b, GL_UNSIGNED_BYTE, width, height, accepts)
       IN  /\ cur' = OSMesaMakeCurrent_cur(t, ctx[c].h, b, GL_UNSIGNED_BYTE, width, height, accepts)
           /\ bound' = IF ret = 0 THEN bound ELSE [bound EXCEPT ![t] = c]
           /\ last' = [op |-> "make_current", t |-> t, c |-> c, b |-> b,
                       prev |-> OSMesaGetCurrentContext(t),
                       res |-> "Ok",
                       calls |-> << [f |-> "OSMesaMakeCurrent", ctx |-> ctx[c].h, buffer |-> b,
                                     type |-> GL_UNSIGNED_BYTE, width |-> width,
                                     height |-> height, ret |-> ret] >>]
    /\ UNCHANGED <<debug_assertions, lib, ctx, buf, nativeLive, dropCalls>>

\* OsMesaContext::make_current
make_current(t, c, b, accepts) ==
    /\ ctx[c].st = "live"
    /\ buf[b].st = "live"
    /\ LET width == AsCInt(buf[b].width)
           height == AsCInt(buf[b].height)
           ret == OSMesaMakeCurrent_ret(ctx[c].h, b, GL_UNSIGNED_BYTE, width, height, accepts)
       IN  /\ cur' = OSMesaMakeCurrent_cur(t, ctx[c].h, b, GL_UNSIGNED_BYTE, width, height, accepts)
           /\ bound' = IF ret = 0 THEN bound ELSE [bound EXCEPT ![t] = c]
           /\ last' = [op |-> "make_current", t |-> t, c |-> c, b |-> b,
                       prev |-> OSMesaGetCurrentContext(t),
                       res |-> IF ret = 0 THEN "panic_make_current" ELSE "Ok",
                       calls |-> << [f |-> "OSMesaMakeCurrent", ctx |-> ctx[c].h, buffer |-> b,
                                     type |-> GL_UNSIGNED_BYTE, width |-> width,
                                     height |-> height, ret |-> ret] >>]
    /\ UNCHANGED <<debug_assertions, lib, ctx, buf, nativeLive, dropCalls>>

\* make_not_current that ignores the clear request's return value
make_not_current_retIgnored(t, c, accepts) ==
    /\ ctx[c].st = "live"
    /\ OSMesaGetCurrentContext(t) # ctx[c].h => accepts
    /\ LET query == [f |-> "OSMesaGetCurrentContext"]
           clear == [f |-> "OSMesaMakeCurrent", ctx |-> Null, buffer |-> Null, type |-> 0,
                     width |-> CIntZero, height |-> CIntZero,
                     ret |-> OSMesaMakeCurrent_ret(Null, Null, 0, CIntZero, CIntZero, accepts)]
           was == OSMesaGetCurrentContext(t) = ctx[c].h
       IN  /\ cur' = IF was
                     THEN OSMesaMakeCurrent_cur(t, Null, Null, 0, CIntZero, CIntZero, accepts)
                     ELSE cur
           /\ bound' = IF was /\ clear.ret # 0 THEN [bound EXCEPT ![t] = 0] ELSE bound
           /\ last' = [op |-> "make_not_current", t |-> t, c |-> c, wasCurrent |-> was,
                       boundOn |-> {u \in Threads : bound[u] = c},
                       slotBefore |-> cur[t], res |-> "Ok",
                       calls |-> IF was THEN <<query, clear>> ELSE <<query>>]
    /\ UNCHANGED <<debug_assertions, lib, ctx, buf, nativeLive, dropCalls>>

\* OsMesaContext::make_not_current
make_not_current(t, c, accepts) ==
    /\ ctx[c].st = "live"
    /\ OSMesaGetCurrentContext(t) # ctx[c].h => accepts
    /\ LET query == [f |-> "OSMesaGetCurrentContext"]
           clear == [f |-> "OSMesaMakeCurrent", ctx |-> Null, buffer |-> Null, type |-> 0,
                     width |-> CIntZero, height |-> CIntZero,
                     ret |-> OSMesaMakeCurrent_ret(Null, Null, 0, CIntZero, CIntZero, accepts)]
       IN  IF OSMesaGetCurrentContext(t) = ctx[c].h
           THEN LET ret == OSMesaMakeCurrent_ret(Null, Null, 0, CIntZero, CIntZero, accepts)
                IN  /\ cur' = OSMesaMakeCurrent_cur(t, Null, Null, 0, CIntZero, CIntZero, accepts)
                    /\ bound' = IF ret = 0 THEN bound ELSE [bound EXCEPT ![t] = 0]
                    /\ last' = [op |-> "make_not_current", t |-> t, c |-> c, wasCurrent |-> TRUE,
                                boundOn |-> {u \in Threads : bound[u] = c},
                                slotBefore |-> cur[t],
                                res |-> IF ret = 0 THEN "panic_unimplemented" ELSE "Ok",
                                calls |-> <<query, clear>>]
           ELSE /\ cur' = cur
                /\ bound' = bound
                /\ last' = [op |-> "make_not_current", t |-> t, c |-> c, wasCurrent |-> FALSE,
                            boundOn |-> {u \in Threads : bound[u] = c},
                            slotBefore |-> cur[t],
                            res |-> "Ok", calls |-> <<query>>]
    /\ UNCHANGED <<debug_assertions, lib, ctx, buf, nativeLive, dropCalls>>

\* the symbol names asked for, as bytes: "gl", "", and "g\0l"
AddrInputs == {<<103, 108>>, <<>>, <<103, 0, 108>>}

\* the pointers OSMesaGetProcAddress can answer: null or an address
ProcAnswers == {Null, 1}

\* CString::new fails on an interior nul byte
CStringNewOk(addr) == \A i \in 1..Len(addr) : addr[i] # 0

\* OsMesaContext::get_proc_address
get_proc_address(t, c, addr, answer) ==
    /\ ctx[c].st = "live"
    /\ answer # Null => CStringNewOk(addr) /\ (debug_assertions => is_current(c, t))
    /\ LET query == [f |-> "OSMesaGetCurrentContext"]
           resolve == [f |-> "OSMesaGetProcAddress", name |-> addr, ret |-> answer]
           pre == [op |-> "get_proc_address", t |-> t, c |-> c, addr |-> addr,
                   wasCurrent |-> is_current(c, t)]
       IN  last' =
             IF debug_assertions /\ ~is_current(c, t)
             THEN pre @@ [res |-> "Err_BadApiUsage", ptr |-> Null, calls |-> <<query>>]
             ELSE IF ~CStringNewOk(addr)
             THEN pre @@ [res |-> "panic_nul", ptr |-> Null,
                          calls |-> IF debug_assertions THEN <<query>> ELSE <<>>]
             ELSE pre @@ [res |-> "Ok", ptr |-> answer,
                          calls |-> (IF debug_assertions THEN <<query>> ELSE <<>>) \o <<resolve>>]
    /\ UNCHANGED <<debug_assertions, lib, ctx, buf, nativeLive, cur, dropCalls, bound>>

\* a drop that forgets the native context: no OSMesaDestroyContext call
OsMesaContext_drop_noDestroy(t, c, clears) ==
    /\ ctx[c].st = "live"
    /\ ~clears
    /\ ctx' = [ctx EXCEPT ![c] = Dropped]
    /\ nativeLive' = nativeLive
    /\ last' = [op |-> "drop", t |-> t, c |-> c, h |-> ctx[c].h, res |-> "Ok", calls |-> <<>>]
    /\ bound' = [u \in Threads |-> IF bound[u] = c THEN 0 ELSE bound[u]]
    /\ UNCHANGED <<debug_assertions, lib, buf, cur, dropCalls>>

\* Drop for OsMesaContext: the owner drops the context on thread t
OsMesaContext_drop(t, c, clears) ==
    /\ ctx[c].st = "live"
    /\ clears => cur[t].ctx = ctx[c].h
    /\ ctx' = [ctx EXCEPT ![c] = Dropped]
    /\ nativeLive' = nativeLive \ {ctx[c].h}
    /\ dropCalls' = [dropCalls EXCEPT ![c] = @ + 1]
    /\ cur' = OSMesaDestroyContext_cur(t, ctx[c].h, clears)
    /\ bound' = [u \in Threads |-> IF bound[u] = c THEN 0 ELSE bound[u]]
    /\ last' = [op |-> "drop", t |-> t, c |-> c, h |-> ctx[c].h, res |-> "Ok",
                calls |-> << [f |-> "OSMesaDestroyContext", ctx |-> ctx[c].h] >>]
    /\ UNCHANGED <<debug_assertions, lib, buf>>

---------------------------------------------------------------------------
Init ==
    /\ debug_assertions \in BOOLEAN
    /\ lib = "untried"
    /\ ctx = [c \in CtxIds |-> NoCtx]
    /\ buf = [b \in BufIds |-> NoBuf]
    /\ nativeLive = {}
    /\ cur = [t \in Threads |-> NoBinding]
    /\ dropCalls = [c \in CtxIds |-> 0]
    /\ bound = [t \in Threads |-> 0]
    /\ last = NoLast

\* the objects alive, and the native answers an operation can draw
LiveCtx == {c \in CtxIds : ctx[c].st = "live"}
LiveBuf == {b \in BufIds : buf[b].st = "live"}
LoadAnswers == IF lib = "untried" THEN BOOLEAN ELSE {lib = "loaded"}

\* the binding protocol: contexts and buffers are created, bound, unbound,
\* queried and dropped
Next ==
    \/ \E size \in BoundSizes, oom \in BOOLEAN : OsMesaBuffer_new(size, oom)
    \/ \E b \in LiveBuf : OsMesaBuffer_drop(b)
    \/ \E sharing \in {0} \cup LiveCtx, loads \in LoadAnswers, answer \in CreateAnswers,
          robustness \in {"NotRobust", "RobustLoseContextOnReset"} :
            OsMesaContext_new(sharing, robustness, "Core", <<3, 3>>, loads, answer)
    \/ \E t \in Threads, c \in LiveCtx, b \in LiveBuf, accepts \in BOOLEAN :
            make_current(t, c, b, accepts)
    \/ \E t \in Threads, c \in LiveCtx, accepts \in BOOLEAN : make_not_current(t, c, accepts)
    \/ \E t \in Threads, c \in LiveCtx, addr \in AddrInputs, answer \in ProcAnswers :
            get_proc_address(t, c, addr, answer)
    \/ \E t \in Threads, c \in LiveCtx, clears \in BOOLEAN : OsMesaContext_drop(t, c, clears)

Spec == Init /\ [][Next]_vars

\* context creation over all its inputs
NextNew ==
    \/ \E sharing \in {0} \cup LiveCtx, loads \in LoadAnswers, answer \in CreateAnswers,
          robustness \in Robustnesses, profile \in Profiles, version \in Versions :
            OsMesaContext_new(sharing, robustness, profile, version, loads, answer)
    \/ \E t \in Threads, c \in LiveCtx, clears \in BOOLEAN : OsMesaContext_drop(t, c, clears)

SpecNew == Init /\ [][NextNew]_vars

\* buffer allocation over all its inputs
NextBuffer ==
    \/ \E size \in SizeInputs, oom \in BOOLEAN : OsMesaBuffer_new(size, oom)
    \/ \E b \in LiveBuf : OsMesaBuffer_drop(b)

SpecBuffer == Init /\ [][NextBuffer]_vars

---------------------------------------------------------------------------
(* Properties *)

\* the native calls of the last operation that went to entry point f
CallsTo(f) == {i \in 1..Len(last.calls) : last.calls[i].f = f}

\* C1: right after make_current(C, B) returns Ok on thread T, C.is_current()
\* is true on T; right after make_not_current() of C returns Ok on T,
\* C.is_current() is false on T.
C1_BindThenUnbind ==
    /\ (last.op = "make_current" /\ last.res = "Ok") => is_current(last.c, last.t)
    /\ (last.op = "make_not_current" /\ last.res = "Ok") => ~is_current(last.c, last.t)

\* C1's case: an unbind of a context that was current has returned Ok
C1_Witness ==
    /\ last.op = "make_not_current"
    /\ last.res = "Ok"
    /\ last.wasCurrent
    /\ last.slotBefore.buffer \in BufIds
    /\ cur[last.t] = NoBinding

\* C10: at most one context is current on a thread; a successful
\* make_current of C2 on a thread where C1 was current leaves C2 current and
\* C1 not current there.
C10_OneCurrentPerThread ==
    /\ \A t \in Threads : \A c1, c2 \in LiveCtx :
          (is_current(c1, t) /\ is_current(c2, t)) => c1 = c2
    /\ (last.op = "make_current" /\ last.res = "Ok") =>
          /\ is_current(last.c, last.t)
          /\ \A c \in LiveCtx : c # last.c => ~is_current(c, last.t)

\* C10's case: make_current succeeded on a thread where another live
\* context was current
C10_Witness ==
    /\ last.op = "make_current"
    /\ last.res = "Ok"
    /\ \E c \in LiveCtx : c # last.c /\ ctx[c].h = last.prev

RejectedRobustness == {"RobustNoResetNotification", "RobustLoseContextOnReset"}

\* C2: a call of OsMesaContext::new whose builder carries a sharing handle
\* panics and issues no OSMesaCreateContextAttribs call, whatever the
\* robustness, profile and version.
C2_SharingPanics ==
    (last.op = "new" /\ last.sharing) =>
        /\ last.res = "panic_sharing"
        /\ CallsTo("OSMesaCreateContextAttribs") = {}

\* C2's case: new was called with a sharing handle and a robustness that
\* the backend also rejects
C2_Witness ==
    /\ last.op = "new"
    /\ last.sharing
    /\ last.robustness \in RejectedRobustness
    /\ last.res = "panic_sharing"

\* C3 as stated: a call of new with a rejected robustness yields
\* RobustnessNotSupported before any native call, library loading included.
C3_Original ==
    (last.op = "new" /\ last.robustness \in RejectedRobustness) =>
        /\ last.res = "Err_RobustnessNotSupported"
        /\ last.calls = <<>>

\* C3 amended: a call of new with a rejected robustness never reaches
\* OSMesaCreateContextAttribs; it yields RobustnessNotSupported when the
\* library loaded and no sharing handle is present, the loading error when
\* the library failed to load, and the sharing panic otherwise; the library
\* loading step is the only native call made.
C3_RobustnessRejected ==
    (last.op = "new" /\ last.robustness \in RejectedRobustness) =>
        /\ last.calls = << [f |-> "try_loading"] >>
        /\ (lib = "loaded" /\ ~last.sharing) => last.res = "Err_RobustnessNotSupported"
        /\ lib # "loaded" => last.res = "Err_OsMesaLoadingError"
        /\ (lib = "loaded" /\ last.sharing) => last.res = "panic_sharing"

\* C3's case: new has answered RobustnessNotSupported
C3_Witness ==
    /\ last.op = "new"
    /\ last.robustness \in RejectedRobustness
    /\ last.res = "Err_RobustnessNotSupported"

\* C4: library loading is the first step of OsMesaContext::new; when it
\* fails the call returns the loading error, whatever the sharing and
\* robustness preferences, and makes no other native call.
C4_LoadingFirst ==
    last.op = "new" =>
        /\ Len(last.calls) >= 1
        /\ last.calls[1].f = "try_loading"
        /\ lib # "loaded" =>
              /\ last.res = "Err_OsMesaLoadingError"
              /\ Len(last.calls) = 1
        /\ last.res = "Err_OsMesaLoadingError" => lib = "failed"

\* C4's case: loading failed in a call that asked for a rejected robustness
C4_Witness ==
    /\ last.op = "new"
    /\ lib = "failed"
    /\ last.robustness \in RejectedRobustness
    /\ last.res = "Err_OsMesaLoadingError"

\* C5: the attribute list passed to OSMesaCreateContextAttribs is
\* [OSMESA_PROFILE, profile constant, OSMESA_CONTEXT_MAJOR_VERSION, major,
\* OSMESA_CONTEXT_MINOR_VERSION, minor, 0] with a profile and
\* [OSMESA_CONTEXT_MAJOR_VERSION, major, OSMESA_CONTEXT_MINOR_VERSION,
\* minor, 0] without one.
C5_AttribList ==
    \A i \in CallsTo("OSMesaCreateContextAttribs") :
        LET a == last.calls[i].attribs
            major == last.version[1]
            minor == last.version[2]
        IN  /\ last.profile = "Core" =>
                  a = <<OSMESA_PROFILE, OSMESA_CORE_PROFILE, OSMESA_CONTEXT_MAJOR_VERSION,
                        major, OSMESA_CONTEXT_MINOR_VERSION, minor, 0>>
            /\ last.profile = "Compatibility" =>
                  a = <<OSMESA_PROFILE, OSMESA_COMPAT_PROFILE, OSMESA_CONTEXT_MAJOR_VERSION,
                        major, OSMESA_CONTEXT_MINOR_VERSION, minor, 0>>
            /\ last.profile = "None" =>
                  a = <<OSMESA_CONTEXT_MAJOR_VERSION, major,
                        OSMESA_CONTEXT_MINOR_VERSION, minor, 0>>
            /\ a[Len(a)] = 0
            /\ Len(a) = IF last.profile = "None" THEN 5 ELSE 7

\* C5's case: a Core context of version 4.0 has been created
C5_Witness ==
    /\ last.op = "new"
    /\ last.res = "Ok"
    /\ last.profile = "Core"
    /\ last.version = <<4, 0>>
    /\ CallsTo("OSMesaCreateContextAttribs") = {2}

\* C7 as stated: in a build with debug_assertions, get_proc_address on a
\* context that is not current returns BadApiUsage without calling
\* OSMesaGetProcAddress; on a current context it calls OSMesaGetProcAddress
\* and returns Ok with the pointer it answered, null included.
C7_Original ==
    (debug_assertions /\ last.op = "get_proc_address") =>
        /\ ~last.wasCurrent =>
              /\ last.res = "Err_BadApiUsage"
              /\ CallsTo("OSMesaGetProcAddress") = {}
        /\ last.wasCurrent =>
              /\ last.res = "Ok"
              /\ \E i \in CallsTo("OSMesaGetProcAddress") :
                    /\ last.calls[i].name = last.addr
                    /\ last.ptr = last.calls[i].ret

\* C8: OSMesaDestroyContext is issued once for each successfully created
\* context, by its drop and on its handle; never for a failed new, never
\* twice for one context.  The native contexts alive are then exactly the
\* handles of the context objects alive, one object per handle.
C8_DestroyExactlyOnce ==
    /\ \A c \in CtxIds : dropCalls[c] = IF ctx[c].st = "dropped" THEN 1 ELSE 0
    /\ nativeLive = {ctx[c].h : c \in LiveCtx}
    /\ \A c1, c2 \in LiveCtx : ctx[c1].h = ctx[c2].h => c1 = c2
    /\ last.op = "drop" =>
          last.calls = << [f |-> "OSMesaDestroyContext", ctx |-> last.h] >>
    /\ last.op # "drop" => CallsTo("OSMesaDestroyContext") = {}
    /\ (last.op = "new" /\ last.res # "Ok") => last.c = 0

\* C8's case: every context object has been created and dropped, the last
\* one just now and on the other thread than the one it was current on
C8_Witness ==
    /\ last.op = "drop"
    /\ \A c \in CtxIds : ctx[c].st = "dropped" /\ dropCalls[c] = 1
    /\ nativeLive = {}
    /\ \E t \in Threads : t # last.t /\ cur[t].ctx = last.h

\* width * height * 4 as a natural number, one digit wider than a usize
ExactLen(size) == SubSeq(MulExact(MulExact(size[1], size[2]), <<4>>), 1, UsizeBytes + 1)

\* C9 as stated: for width, height > 0, OsMesaBuffer::new returns a buffer
\* that stores the width and the height given and whose storage length is
\* width * height * 4 exactly (the host allocator's failure apart).
C9_Original ==
    (/\ last.op = "buffer_new"
     /\ ~IsZero(last.size[1])
     /\ ~IsZero(last.size[2])
     /\ last.res # "abort_alloc") =>
        /\ last.res = "Ok"
        /\ buf[last.b].width = last.size[1]
        /\ buf[last.b].height = last.size[2]
        /\ buf[last.b].len \o <<0>> = ExactLen(last.size)


\* C11: make_not_current never returns Ok while its context is still current
\* on the calling thread.  It ends in Ok or in the unimplemented panic and
\* nothing else; when the clear request OSMesaMakeCurrent(null, null, 0, 0, 0)
\* was issued and returned 0 the call panics with the context still current;
\* whenever it returns Ok, is_current of that context on that thread is false.
C11_UnbindNeverFalselyOk ==
    last.op = "make_not_current" =>
        /\ last.res \in {"Ok", "panic_unimplemented"}
        /\ \A i \in CallsTo("OSMesaMakeCurrent") :
              /\ last.wasCurrent
              /\ last.calls[i].ret = 0 <=> last.res = "panic_unimplemented"
        /\ last.res = "panic_unimplemented" =>
              /\ CallsTo("OSMesaMakeCurrent") # {}
              /\ is_current(last.c, last.t)
        /\ last.res = "Ok" =>
              /\ ~is_current(last.c, last.t)
              /\ OSMesaGetCurrentContext(last.t) # ctx[last.c].h

\* the native layer refused to clear the slot of a current context: the call
\* panicked and the context is still the thread's current one
C11_Witness ==
    /\ last.op = "make_not_current"
    /\ last.wasCurrent
    /\ last.calls[2].f = "OSMesaMakeCurrent"
    /\ last.calls[2].ret = 0
    /\ last.res = "panic_unimplemented"
    /\ is_current(last.c, last.t)

\* C12: make_current never returns an error value.  It ends in Ok or in the
\* panic "OSMesaMakeCurrent failed"; it issues exactly one OSMesaMakeCurrent;
\* it panics exactly when that call returned 0; and whenever it returns Ok the
\* context is current on the calling thread.
C12_BindOkOrPanic ==
    last.op = "make_current" =>
        /\ last.res \in {"Ok", "panic_make_current"}
        /\ Len(last.calls) = 1
        /\ last.calls[1].f = "OSMesaMakeCurrent"
        /\ last.calls[1].ret = 0 <=> last.res = "panic_make_current"
        /\ last.res = "Ok" =>
              /\ is_current(last.c, last.t)
              /\ cur[last.t].buffer = last.b

\* a make_current whose native call failed and which panicked, leaving the
\* context not current
C12_Witness ==
    /\ last.op = "make_current"
    /\ last.calls[1].ret = 0
    /\ last.res = "panic_make_current"
    /\ ~is_current(last.c, last.t)


\* C13: when OSMesaCreateContextAttribs returns null, new returns the
\* recoverable error OsError::Misc, constructs no OsMesaContext and issues no
\* OSMesaDestroyContext for the failed attempt, and a later call of new can
\* still succeed (the library stays loaded and the next call, given a
\* non-null handle, returns Ok); every OsMesaContext that exists wraps a
\* non-null handle of a native context that is alive.
C13_NullHandleIsMiscError ==
    /\ \A c \in CtxIds : ctx[c].st = "live" => ctx[c].h # Null /\ ctx[c].h \in nativeLive
    /\ Null \notin nativeLive
    /\ last.op = "new" =>
          \A i \in CallsTo("OSMesaCreateContextAttribs") :
              /\ last.calls[i].ret = Null <=> last.res = "Err_Misc"
              /\ last.calls[i].ret # Null <=> last.res = "Ok"
              /\ last.calls[i].ret = Null =>
                    /\ last.c = 0
                    /\ CallsTo("OSMesaDestroyContext") = {}
                    /\ lib = "loaded"
                    /\ ENABLED (/\ \E answer \in CreateAnswers :
                                      OsMesaContext_new(0, "NotRobust", last.profile,
                                                        last.version, TRUE, answer)
                                /\ last'.res = "Ok")
    /\ (last.op = "new" /\ last.res = "Err_Misc") => CallsTo("OSMesaCreateContextAttribs") # {}

\* new failed on a null handle while another context exists: no object was
\* made for the attempt and the existing one keeps its handle
C13_Witness ==
    /\ last.op = "new"
    /\ last.res = "Err_Misc"
    /\ last.calls[2].ret = Null
    /\ last.c = 0
    /\ \E c \in CtxIds : ctx[c].st = "live" /\ ctx[c].h # Null
    /\ \E c \in CtxIds : ctx[c].st = "none"

\* C14: OSMesaCreateContextAttribs is issued by new only, and only when the
\* library loading succeeded, no sharing handle is present and the robustness
\* is neither RobustNoResetNotification nor RobustLoseContextOnReset; at most
\* once per call of new, after try_loading, and with a null sharing handle.
C14_CreateOnlyAfterChecks ==
    /\ last.op # "new" => CallsTo("OSMesaCreateContextAttribs") = {}
    /\ last.op = "new" =>
          /\ Cardinality(CallsTo("OSMesaCreateContextAttribs")) <= 1
          /\ \A i \in CallsTo("OSMesaCreateContextAttribs") :
                /\ lib = "loaded"
                /\ i = 2
                /\ last.calls[1].f = "try_loading"
                /\ ~last.sharing
                /\ last.robustness \notin {"RobustNoResetNotification", "RobustLoseContextOnReset"}
                /\ last.calls[i].share = Null
          /\ (last.res \in {"Err_OsMesaLoadingError", "panic_sharing", "Err_RobustnessNotSupported"})
                => CallsTo("OSMesaCreateContextAttribs") = {}

\* a creation that went through with a robustness that is only tried
C14_Witness ==
    /\ last.op = "new"
    /\ last.robustness = "TryRobustNoResetNotification"
    /\ ~last.sharing
    /\ lib = "loaded"
    /\ Cardinality(CallsTo("OSMesaCreateContextAttribs")) = 1
    /\ last.calls[2].share = Null
    /\ last.res = "Ok"


\* C17: the module does not enforce buffer liveness during a binding.
\* Dropping an OsMesaBuffer issues no native call and leaves every thread's
\* current binding, the contexts and the native contexts unchanged; a buffer
\* that is some thread's current render target can be dropped, and then the
\* binding still refers to the storage of the freed buffer.
C17_BufferDropKeepsBinding ==
    [][ /\ last'.op = "buffer_drop" =>
              /\ last'.calls = <<>>
              /\ cur' = cur
              /\ ctx' = ctx
              /\ nativeLive' = nativeLive
              /\ buf[last'.b].st = "live"
              /\ buf'[last'.b].st = "dropped"
        /\ \A b \in BufIds :
              (buf[b].st = "live" /\ \E t \in Threads : cur[t].buffer = b)
              => ENABLED ( /\ OsMesaBuffer_drop(b)
                           /\ \E t \in Threads : cur'[t].buffer = b /\ cur'[t].ctx # Null )
      ]_vars

\* make_current(C, B); drop(B): the thread's binding still pairs the live
\* context C with the storage of B, which has been freed
C17_Witness ==
    /\ last.op = "buffer_drop"
    /\ buf[last.b].st = "dropped"
    /\ \E t \in Threads, c \in CtxIds :
          /\ ctx[c].st = "live"
          /\ is_current(c, t)
          /\ cur[t].buffer = last.b


\* C16: every make_current(C, B) passes to OSMesaMakeCurrent C's handle, B's
\* storage pointer, GL_UNSIGNED_BYTE, and a width and a height equal in value
\* to B.width and B.height, for every unsigned 32-bit dimension; and when it
\* returns Ok, whatever was bound before, the thread's binding pairs C with
\* B's storage and dimensions and C is current.
C16_Original ==
    last.op = "make_current" =>
        /\ Len(last.calls) = 1
        /\ last.calls[1].f = "OSMesaMakeCurrent"
        /\ last.calls[1].ctx = ctx[last.c].h
        /\ last.calls[1].buffer = last.b
        /\ last.calls[1].type = GL_UNSIGNED_BYTE
        /\ last.calls[1].width = [neg |-> FALSE, mag |-> buf[last.b].width]
        /\ last.calls[1].height = [neg |-> FALSE, mag |-> buf[last.b].height]
        /\ last.res = "Ok" =>
              /\ is_current(last.c, last.t)
              /\ cur[last.t] = [ctx |-> ctx[last.c].h, buffer |-> last.b,
                                type |-> GL_UNSIGNED_BYTE,
                                width |-> [neg |-> FALSE, mag |-> buf[last.b].width],
                                height |-> [neg |-> FALSE, mag |-> buf[last.b].height]]


\* C18: in every reachable state the context that a thread's current slot
\* designates is a live context: no slot holds a handle on which
\* OSMesaDestroyContext has been called; and consequently is_current of a
\* context is true on a thread only after a make_current of that context on
\* that thread, so a context that new has just returned is current nowhere,
\* whatever handle value it received.
C18_Original ==
    /\ \A t \in Threads :
          OSMesaGetCurrentContext(t) # Null =>
              /\ OSMesaGetCurrentContext(t) \in nativeLive
              /\ \E c \in CtxIds : ctx[c].st = "live" /\ ctx[c].h = OSMesaGetCurrentContext(t)
    /\ (last.op = "new" /\ last.res = "Ok") =>
          \A t \in Threads : ~is_current(last.c, t)


\* C6: make_not_current on a context that is not the calling thread's
\* current context (no make_current of it succeeded on that thread, or it
\* was unbound there since, or another context displaced it) is a no-op that
\* returns Ok: it issues no OSMesaMakeCurrent call and leaves the thread's
\* slot as it was, and a different context that is current on that thread
\* stays current.
C6_Original ==
    (last.op = "make_not_current" /\ last.t \notin last.boundOn) =>
        /\ last.res = "Ok"
        /\ CallsTo("OSMesaMakeCurrent") = {}
        /\ cur[last.t] = last.slotBefore
        /\ \A c \in CtxIds :
              (c # last.c /\ ctx[c].st = "live" /\ ctx[c].h = last.slotBefore.ctx)
              => is_current(c, last.t)

\* C15: the current designation is per thread.  With a live context C made
\* current on thread T1 and not on thread T2, is_current of C is true on T1
\* and false on T2; make_not_current of C called on T2 is a no-op that
\* returns Ok, changes no slot and leaves C current on T1; and make_current
\* of C can succeed on T2 while C is still current on T1.
C15_Original ==
    /\ \A c \in CtxIds, t1, t2 \in Threads :
          (ctx[c].st = "live" /\ bound[t1] = c /\ bound[t2] # c)
          => /\ is_current(c, t1)
             /\ ~is_current(c, t2)
    /\ ( /\ last.op = "make_not_current"
         /\ last.t \notin last.boundOn
         /\ last.boundOn # {} )
       => /\ last.res = "Ok"
          /\ CallsTo("OSMesaMakeCurrent") = {}
          /\ cur[last.t] = last.slotBefore
          /\ \A t1 \in last.boundOn : bound[t1] = last.c /\ is_current(last.c, t1)
    /\ \A c \in CtxIds, b \in BufIds, t1, t2 \in Threads :
          ( /\ ctx[c].st = "live"
            /\ buf[b].st = "live"
            /\ CIntPositive(AsCInt(buf[b].width))
            /\ CIntPositive(AsCInt(buf[b].height))
            /\ bound[t1] = c
            /\ bound[t2] # c )
          => ENABLED ( /\ make_current(t2, c, b, TRUE)
                       /\ last'.res = "Ok"
                       /\ is_current(c, t1)'
                       /\ is_current(c, t2)' )

=============================================================================
